---- MODULE Spec2Model ----
(***************************************************************************)
(* Model of the inference/evaluation loop of Mol-AIR                       *)
(* (src/train/inference.py) together with the process-wide logger          *)
(* (src/util.py) it drives.                                                *)
(*                                                                         *)
(* Python Optional[T] values are modelled as sequences of length <= 1:     *)
(* None is <<>> and a present value x is <<x>>.                            *)
(***************************************************************************)
EXTENDS Integers, Sequences, FiniteSets, TLC

(***************************************************************************)
(* Bounds of the model                                                     *)
(***************************************************************************)
NumEnvs == 2
MaxEpisodes == 2
MaxUnique == 2
MaxEpisodeLen == 2

Envs == 1..NumEnvs
ResetObs == 0
Actions == {0, 1}
Rewards == {0, 1}

None == <<>>
Some(x) == <<x>>

(***************************************************************************)
(* Collaborators outside src/: chemistry helpers and the environment       *)
(***************************************************************************)
\* SMILES strings the environment can report; "OCC" is another spelling of
\* the molecule "CCO".
SmilesDomain == {"CCO", "OCC", "CCN"}

\* metric.canonicalize of one SMILES string: its canonical identifier.
CanonicalOf(s) == IF s = "OCC" THEN "CCO" ELSE s

\* metric.canonicalize(list_of_smiles) -> set_of_canonical_ids; entries that
\* are not molecules (None) have no canonical identifier.
canonicalize(smiles_list) ==
    { CanonicalOf(smiles_list[k][1]) :
        k \in { j \in 1..Len(smiles_list) : smiles_list[j] # None } }

\* The "values" of an episode_metric: metric name -> scalar, where a metric
\* that could not be computed is None.
EpisodeValues ==
    { [smiles |-> Some("CCO"), score |-> Some(1)],
      [smiles |-> Some("CCO"), score |-> Some(2)],
      [smiles |-> Some("OCC"), score |-> Some(2)],
      [smiles |-> Some("CCN"), score |-> None] }

\* One per-instance entry of env_info["metric"]: None, a metric dict without
\* an "episode_metric" entry, or a metric dict with one.
OtherMetricDict == Some([episode_metric |-> None])
EpisodeMetricDict(v) == Some([episode_metric |-> Some([values |-> v])])

\* Number of TRUE entries of a boolean vector over 1..n (np.sum(terminated)).
RECURSIVE CountTrue(_, _)
CountTrue(flags, n) ==
    IF n = 0 THEN 0
    ELSE CountTrue(flags, n - 1) + (IF flags[n] THEN 1 ELSE 0)

\* np.sum(episodes)
RECURSIVE SumUpTo(_, _)
SumUpTo(f, n) == IF n = 0 THEN 0 ELSE SumUpTo(f, n - 1) + f[n]

\* The info of one step, given the terminated flags: every terminated
\* instance reports an episode_metric; the others report nothing (None) or a
\* metric dict without episode_metric; the "metric" entry is absent
\* altogether only when no instance reports anything.
EnvInfos(t) ==
    { [has_metric |-> TRUE,
       metric |-> [i \in Envs |-> IF t[i] THEN EpisodeMetricDict(v[i]) ELSE other]] :
         v \in [{ i \in Envs : t[i] } -> EpisodeValues], other \in {None, OtherMetricDict} }
      \cup (IF \A i \in Envs : ~t[i]
            THEN {[has_metric |-> FALSE, metric |-> [i \in Envs |-> None]]}
            ELSE {})

\* The true final observations of the terminated instances, in instance
\* order (the suffix from instance i on).
RECURSIVE FinalObs(_, _, _)
FinalObs(t, progress, i) ==
    IF i > NumEnvs THEN <<>>
    ELSE (IF t[i] THEN <<progress[i] + 1>> ELSE <<>>) \o FinalObs(t, progress, i + 1)

\* Env.step: what a vectorized environment can return when its instances
\* have built progress[i] tokens.  An observation is the number of tokens of
\* the partial molecule; a step appends one token.  An episode ends at the
\* latest after MaxEpisodeLen tokens.  A terminated slot is auto-reset (its
\* next_obs is the reset observation), its true final observation is
\* delivered in real_final_next_obs (one entry per terminated instance, in
\* instance order) and its info carries the episode_metric.
EnvStepOutputs(progress) ==
    UNION { { [ next_obs |-> [i \in Envs |-> IF t[i] THEN ResetObs
                                              ELSE progress[i] + 1],
                reward |-> r,
                terminated |-> t,
                real_final_next_obs |-> FinalObs(t, progress, 1),
                env_info |-> info ] :
                r \in Rewards, info \in EnvInfos(t) } :
            t \in { f \in [Envs -> BOOLEAN] :
                      \A i \in Envs : progress[i] + 1 = MaxEpisodeLen => f[i] } }

\* Env.reset() -> obs_batch
EnvReset == [i \in Envs |-> ResetObs]

(***************************************************************************)
(* State                                                                   *)
(***************************************************************************)
VARIABLES
    self_id,                 \* Inference._id
    self_n_episodes,         \* Inference._n_episodes
    self_n_unique_molecules, \* Inference._n_unique_molecules (Optional)
    self_refset,             \* Inference._smiles_or_selfies_refset (Optional)
    self_enabled,            \* Inference._enabled
    canonical_smiles_set,    \* Inference._canonical_smiles_set
    logger,                  \* class attributes of util.logger
    env,                     \* the environment: closed flag, resets, tokens built
    model_eval,              \* agent.model is in evaluation mode
    pc,                      \* position inside inference(), "idle" outside it
    obs, action, step_out, exp,        \* locals of the stepping loop
    episodes, metric_list_dict,        \* locals of the stepping loop
    pbar, unique_molecule_pbar,        \* progress bars (n, total)
    calls,                   \* numbers of select_action / step / update calls
    original_metric_df, metric_df, avg_scores, \* locals of aggregation
    files,                   \* artifacts under <log dir>/inference
    result,                  \* outcome of the last inference() call
    printed,                 \* messages given to logger.print
    logger_result,           \* outcome of the last call made on util.logger directly
    policy,                  \* a CategoricalPolicy: _layer and _temperature (Optional)
    policy_result,           \* outcome of the last CategoricalPolicy call
    logits,                  \* logits computed by the last forward call (Optional)
    writer,                  \* a CSVSyncWriter: its fields, buffer and field types (Optional)
    csv_file,                \* the file at the writer's path: header and rows (Optional)
    writer_result,           \* outcome of the last CSVSyncWriter call
    net,                     \* a PPO+RND network: its parameter sets (Optional)
    net_result,              \* outcome of the last call made on the network
    rnd_outputs              \* feature pairs forward_rnd has returned, per input

vars == << self_id, self_n_episodes, self_n_unique_molecules, self_refset,
           self_enabled, canonical_smiles_set, logger, env, model_eval, pc,
           obs, action, step_out, exp, episodes, metric_list_dict, pbar,
           unique_molecule_pbar, calls, original_metric_df, metric_df,
           avg_scores, files, result, printed, logger_result,
           policy, policy_result, logits, writer, csv_file, writer_result,
           net, net_result, rnd_outputs >>

instance_vars == << self_id, self_n_episodes, self_n_unique_molecules, self_refset >>
loop_vars == << obs, action, step_out, exp, episodes, metric_list_dict, pbar,
                unique_molecule_pbar >>
agg_vars == << original_metric_df, metric_df, avg_scores >>
\* state of the components of util.py and drl/ that are used on their own
policy_vars == << policy, policy_result, logits >>
writer_vars == << writer, csv_file, writer_result >>
net_vars == << net, net_result, rnd_outputs >>
component_vars == << logger_result, policy_vars, writer_vars, net_vars >>

(***************************************************************************)
(* util.logger                                                             *)
(***************************************************************************)
LoggerInit ==
    [enabled |-> FALSE, log_dir |-> None, run_id |-> None, has_logged_data |-> FALSE]

\* logger.enable when the logger is disabled and wandb.init succeeds
LoggerEnabled(l, id) ==
    [l EXCEPT !.enabled = TRUE, !.log_dir = Some(id), !.run_id = Some(id)]

\* variant: a failed enable leaves the logger as it was
LoggerEnableFailedRolledBack(l, id) == l

\* logger.enable when the logger is disabled and wandb.init raises: the
\* assignments made before the try block stay.
LoggerEnableFailed(l, id) ==
    [l EXCEPT !.enabled = TRUE, !.log_dir = Some(id)]

\* variant: disable forgets to clear the log directory
LoggerDisabledKeepsDir(l) ==
    [l EXCEPT !.run_id = None, !.enabled = FALSE, !.has_logged_data = FALSE]

\* logger.disable when the logger is enabled
LoggerDisabled(l) ==
    [l EXCEPT !.log_dir = None, !.run_id = None, !.enabled = FALSE,
              !.has_logged_data = FALSE]

\* no call was made on the component yet
NoCall == [call |-> "none", kind |-> "none", value |-> "none"]

\* the call returned the value
Returned(call, value) == [call |-> call, kind |-> "returned", value |-> value]

\* the call raised the exception with the message
Raised(call, kind, message) == [call |-> call, kind |-> kind, value |-> message]

(***************************************************************************)
(* Inference.__init__                                                      *)
(***************************************************************************)
NoFiles ==
    [molecules_csv |-> None, metrics_csv |-> None, best_molecule_csv |-> None,
     top_50_unique_molecules_png |-> None]

EmptyMetricListDict == [smiles |-> <<>>, score |-> <<>>]

NoCalls ==
    [select_action |-> 0, step |-> 0, update |-> 0, preprocess |-> 0,
     calc_diversity |-> 0, calc_uniqueness |-> 0, calc_novelty |-> 0,
     draw_molecules |-> 0]

Init ==
    /\ self_id = "run"
    /\ self_n_episodes \in 0..MaxEpisodes
    /\ self_n_unique_molecules \in {None} \cup { Some(k) : k \in 0..MaxUnique }
    /\ self_refset \in {None, Some({"CCO"})}
    /\ self_enabled = TRUE
    /\ canonical_smiles_set = {}
    /\ logger = LoggerInit
    /\ env = [closed |-> FALSE, resets |-> 0, progress |-> [i \in Envs |-> 0]]
    /\ model_eval = FALSE
    /\ pc = "idle"
    /\ obs = EnvReset
    /\ action = None /\ step_out = None /\ exp = None
    /\ episodes = [i \in Envs |-> 0]
    /\ metric_list_dict = EmptyMetricListDict
    /\ pbar = None /\ unique_molecule_pbar = None
    /\ calls = NoCalls
    /\ original_metric_df = <<>> /\ metric_df = <<>> /\ avg_scores = None
    /\ files = NoFiles
    /\ result = "none"
    /\ printed = {}
    /\ logger_result = NoCall
    /\ policy = None /\ policy_result = NoCall /\ logits = None
    /\ writer = None /\ csv_file = None /\ writer_result = NoCall
    /\ net = None /\ net_result = NoCall /\ rnd_outputs = [input \in {} |-> {}]

(***************************************************************************)
(* Helpers of the stepping loop                                            *)
(***************************************************************************)
\* Inference._numpy_to_tensor on an observation or reward array: float32
\* holds the small integers of the model exactly.
NumpyToTensor(x) == x

\* Inference._numpy_to_tensor on the boolean terminated array (with the new
\* trailing axis): False -> 0.0, True -> 1.0.
BoolToTensor(flags) == [i \in DOMAIN flags |-> IF flags[i] THEN 1 ELSE 0]

\* real_next_obs[terminated] = real_final_next_obs: boolean-mask assignment,
\* the k-th masked slot (in index order) receives the k-th value.
RECURSIVE MaskAssign(_, _, _, _, _)
MaskAssign(arr, mask, values, i, k) ==
    IF i > Len(arr) THEN arr
    ELSE IF mask[i]
         THEN MaskAssign([arr EXCEPT ![i] = values[k]], mask, values, i + 1, k + 1)
         ELSE MaskAssign(arr, mask, values, i + 1, k)

\* variant: the terminated slots keep the auto-reset observation
RealNextObsUncorrected(next_obs, terminated, real_final_next_obs) == next_obs

RealNextObs(next_obs, terminated, real_final_next_obs) ==
    MaskAssign(next_obs, terminated, real_final_next_obs, 1, 1)

\* drl.Experience(obs, action, real_next_obs, reward, terminated)
Experience(o, a, out) ==
    [obs |-> o,
     action |-> a,
     next_obs |-> NumpyToTensor(RealNextObs(out.next_obs, out.terminated,
                                            out.real_final_next_obs)),
     reward |-> NumpyToTensor(out.reward),
     terminated |-> BoolToTensor(out.terminated)]

\* Inference._inference_metric: per metric name, the values of the
\* episode_metric entries of env_info["metric"], in instance order.
RECURSIVE InferenceMetricFrom(_, _)
InferenceMetricFrom(metric_dicts, i) ==
    IF i > Len(metric_dicts) THEN EmptyMetricListDict
    ELSE LET rest == InferenceMetricFrom(metric_dicts, i + 1)
             metric_dict == metric_dicts[i]
         IN  IF metric_dict = None THEN rest
             ELSE IF metric_dict[1].episode_metric = None THEN rest
             ELSE LET values == metric_dict[1].episode_metric[1].values
                  IN  [key \in DOMAIN rest |-> <<values[key]>> \o rest[key]]

\* variant: the test for the "metric" entry is inverted
InferenceMetricInverted(env_info) ==
    IF env_info.has_metric THEN EmptyMetricListDict
    ELSE InferenceMetricFrom(env_info.metric, 1)

InferenceMetric(env_info) ==
    IF ~env_info.has_metric THEN EmptyMetricListDict
    ELSE InferenceMetricFrom(env_info.metric, 1)

\* variant: the set is replaced by the identities of the new batch
UpdateNUniqueMoleculesReplacing(set, new_smiles_list) ==
    canonicalize(new_smiles_list)

\* Inference._update_n_unique_molecules(new_smiles_list): the set after
\* the update.
UpdateNUniqueMolecules(set, new_smiles_list) ==
    set \cup canonicalize(new_smiles_list)

\* variant: the total is never raised
PbarAdvanceFixedTotal(bar, k) == [n |-> bar.n + k, total |-> bar.total]

\* tqdm total after "if pbar.n + k > pbar.total: pbar.total = pbar.n + k"
\* followed by pbar.update(k)
PbarAdvance(bar, k) ==
    [n |-> bar.n + k,
     total |-> IF bar.n + k > bar.total THEN bar.n + k ELSE bar.total]

\* the unique-molecule bar: total raised to n_unique when exceeded, then
\* update(n_unique - n)
UniquePbarAdvance(bar, n_unique) ==
    [n |-> bar.n + (n_unique - bar.n),
     total |-> IF n_unique > bar.total THEN n_unique ELSE bar.total]

(***************************************************************************)
(* Inference.inference: entry                                              *)
(***************************************************************************)
\* variant: the closed check is missing
InferenceAllowedAlways == TRUE

\* "if not self._enabled: raise RuntimeError": the call may proceed
InferenceAllowed == self_enabled

\* inference() on a closed instance: RuntimeError before anything else
InferenceClosed ==
    /\ pc = "idle"
    /\ ~InferenceAllowed
    /\ result' = "RuntimeError"
    /\ UNCHANGED << component_vars, instance_vars, self_enabled, canonical_smiles_set, logger,
                    env, model_eval, pc, loop_vars, calls, agg_vars, files, printed >>

\* logger.enable raises: the logger is already enabled
InferenceLoggerAlreadyEnabled ==
    /\ pc = "idle"
    /\ InferenceAllowed
    /\ logger.enabled
    /\ result' = "LoggerException"
    /\ UNCHANGED << component_vars, instance_vars, self_enabled, canonical_smiles_set, logger,
                    env, model_eval, pc, loop_vars, calls, agg_vars, files, printed >>

\* logger.enable raises: wandb.init failed
InferenceWandbFails ==
    /\ pc = "idle"
    /\ InferenceAllowed
    /\ ~logger.enabled
    /\ logger' = LoggerEnableFailed(logger, self_id)
    /\ result' = "LoggerException"
    /\ UNCHANGED << component_vars, instance_vars, self_enabled, canonical_smiles_set,
                    env, model_eval, pc, loop_vars, calls, agg_vars, files, printed >>

\* lines 43-57: logger enabled, locals created, model.eval(), env.reset(),
\* progress bars created
InferenceBegin ==
    /\ pc = "idle"
    /\ InferenceAllowed
    /\ ~logger.enabled
    /\ logger' = LoggerEnabled(logger, self_id)
    /\ printed' = printed \cup {"Inference started"}
    /\ episodes' = [i \in Envs |-> 0]
    /\ metric_list_dict' = EmptyMetricListDict
    /\ model_eval' = TRUE
    /\ env' = [env EXCEPT !.resets = @ + 1, !.progress = EnvReset]
    /\ obs' = EnvReset
    /\ pbar' = Some([n |-> 0, total |-> self_n_episodes])
    /\ unique_molecule_pbar' =
          IF self_n_unique_molecules # None
          THEN Some([n |-> 0, total |-> self_n_unique_molecules[1]])
          ELSE None
    /\ calls' = calls
    /\ action' = None /\ step_out' = None /\ exp' = None
    /\ result' = "running"
    /\ pc' = "while"
    /\ UNCHANGED << component_vars, instance_vars, self_enabled, canonical_smiles_set,
                    agg_vars, files >>

(***************************************************************************)
(* Inference.inference: the stepping loop                                  *)
(***************************************************************************)
\* variant: the loop condition is off by one (<=)
LoopConditionOffByOne == SumUpTo(episodes, NumEnvs) <= self_n_episodes

\* the loop condition np.sum(episodes) < self._n_episodes
LoopCondition == SumUpTo(episodes, NumEnvs) < self_n_episodes

\* variant: the test is repeated, without leaving the loop, once the
\* budget is used up
LoopTestNeverLeaves ==
    /\ pc = "while"
    /\ pc' = IF LoopCondition
             THEN "select_action" ELSE "while"
    /\ UNCHANGED << component_vars, instance_vars, self_enabled, canonical_smiles_set, logger,
                    env, model_eval, loop_vars, calls, agg_vars, files, result, printed >>

\* while np.sum(episodes) < self._n_episodes
LoopTest ==
    /\ pc = "while"
    /\ pc' = IF LoopCondition
             THEN "select_action" ELSE "aggregate"
    /\ UNCHANGED << component_vars, instance_vars, self_enabled, canonical_smiles_set, logger,
                    env, model_eval, loop_vars, calls, agg_vars, files, result, printed >>

\* obs = numpy_to_tensor(obs); action = agent.select_action(obs)
SelectAction ==
    /\ pc = "select_action"
    /\ \E a \in Actions : action' = Some(a)
    /\ obs' = NumpyToTensor(obs)
    /\ calls' = [calls EXCEPT !.select_action = @ + 1]
    /\ pc' = "step"
    /\ UNCHANGED << component_vars, instance_vars, self_enabled, canonical_smiles_set, logger,
                    env, model_eval, step_out, exp, episodes, metric_list_dict,
                    pbar, unique_molecule_pbar, agg_vars, files, result, printed >>

\* cap of the env.step counter: one more step than any run of the loop
\* takes, the instances each completing an episode within MaxEpisodeLen steps
StepCap == MaxEpisodeLen * ((MaxEpisodes + NumEnvs - 1) \div NumEnvs) + 1

\* next_obs, reward, terminated, real_final_next_obs, env_info = env.step(action)
EnvStep ==
    /\ pc = "step"
    /\ calls.step < StepCap
    /\ \E out \in EnvStepOutputs(env.progress) :
          /\ step_out' = Some(out)
          /\ env' = [env EXCEPT !.progress = out.next_obs]
    /\ calls' = [calls EXCEPT !.step = @ + 1]
    /\ pc' = "update"
    /\ UNCHANGED << component_vars, instance_vars, self_enabled, canonical_smiles_set, logger,
                    model_eval, obs, action, exp, episodes, metric_list_dict,
                    pbar, unique_molecule_pbar, agg_vars, files, result, printed >>

\* variant: no update on a step in which an instance terminated
AgentUpdateSkipsTerminal ==
    /\ pc = "update"
    /\ exp' = Some(Experience(obs, action[1], step_out[1]))
    /\ calls' = [calls EXCEPT !.update =
                    IF CountTrue(step_out[1].terminated, NumEnvs) > 0 THEN @ ELSE @ + 1]
    /\ pc' = "metrics"
    /\ UNCHANGED << component_vars, instance_vars, self_enabled, canonical_smiles_set, logger,
                    env, model_eval, obs, action, step_out, episodes,
                    metric_list_dict, pbar, unique_molecule_pbar, agg_vars,
                    files, result, printed >>

\* lines 66-78: the experience is assembled and given to agent.update
AgentUpdate ==
    /\ pc = "update"
    /\ exp' = Some(Experience(obs, action[1], step_out[1]))
    /\ calls' = [calls EXCEPT !.update = @ + 1]
    /\ pc' = "metrics"
    /\ UNCHANGED << component_vars, instance_vars, self_enabled, canonical_smiles_set, logger,
                    env, model_eval, obs, action, step_out, episodes,
                    metric_list_dict, pbar, unique_molecule_pbar, agg_vars,
                    files, result, printed >>

\* variant: the budget test is strict (>)
UniqueBudgetExceeded(n_unique_molecules) ==
    n_unique_molecules > self_n_unique_molecules[1]

\* "if n_unique_molecules >= self._n_unique_molecules: break"
UniqueBudgetReached(n_unique_molecules) ==
    n_unique_molecules >= self_n_unique_molecules[1]

\* variant: the canonical set is updated whether or not a unique-molecule
\* target is configured
UpdateMetricsAlwaysCanonicalizing ==
    /\ pc = "metrics"
    /\ LET out == step_out[1]
           new == InferenceMetric(out.env_info)
           n_terminated == CountTrue(out.terminated, NumEnvs)
           set == UpdateNUniqueMolecules(canonical_smiles_set, new.smiles)
           n_unique_molecules == Cardinality(set)
       IN  /\ metric_list_dict' =
                 [key \in DOMAIN metric_list_dict |-> metric_list_dict[key] \o new[key]]
           /\ canonical_smiles_set' = set
           /\ obs' = out.next_obs
           /\ episodes' = [i \in Envs |->
                             episodes[i] + (IF out.terminated[i] THEN 1 ELSE 0)]
           /\ pbar' = Some(PbarAdvance(pbar[1], n_terminated))
           /\ unique_molecule_pbar' =
                 IF unique_molecule_pbar # None
                 THEN Some(UniquePbarAdvance(unique_molecule_pbar[1], n_unique_molecules))
                 ELSE None
           /\ pc' = IF /\ unique_molecule_pbar # None
                       /\ UniqueBudgetReached(n_unique_molecules)
                    THEN "aggregate" ELSE "while"
    /\ action' = None /\ step_out' = None /\ exp' = None
    /\ UNCHANGED << component_vars, instance_vars, self_enabled, logger, env, model_eval, calls,
                    agg_vars, files, result, printed >>

\* lines 80-104: metrics accumulated, canonical set updated, obs and episode
\* counters advanced, progress bars advanced, early exit on the
\* unique-molecule budget.  The per-step locals are dead afterwards.
UpdateMetrics ==
    /\ pc = "metrics"
    /\ LET out == step_out[1]
           new == InferenceMetric(out.env_info)
           n_terminated == CountTrue(out.terminated, NumEnvs)
           set == IF unique_molecule_pbar # None
                  THEN UpdateNUniqueMolecules(canonical_smiles_set, new.smiles)
                  ELSE canonical_smiles_set
           n_unique_molecules == Cardinality(set)
       IN  /\ metric_list_dict' =
                 [key \in DOMAIN metric_list_dict |-> metric_list_dict[key] \o new[key]]
           /\ canonical_smiles_set' = set
           /\ obs' = out.next_obs
           /\ episodes' = [i \in Envs |->
                             episodes[i] + (IF out.terminated[i] THEN 1 ELSE 0)]
           /\ pbar' = Some(PbarAdvance(pbar[1], n_terminated))
           /\ unique_molecule_pbar' =
                 IF unique_molecule_pbar # None
                 THEN Some(UniquePbarAdvance(unique_molecule_pbar[1], n_unique_molecules))
                 ELSE None
           /\ pc' = IF /\ unique_molecule_pbar # None
                       /\ UniqueBudgetReached(n_unique_molecules)
                    THEN "aggregate" ELSE "while"
    /\ action' = None /\ step_out' = None /\ exp' = None
    /\ UNCHANGED << component_vars, instance_vars, self_enabled, logger, env, model_eval, calls,
                    agg_vars, files, result, printed >>

(***************************************************************************)
(* Inference.inference: aggregation and reporting                          *)
(***************************************************************************)
TopN == 50

\* pd.DataFrame(metric_list_dict): row i holds the i-th entry of every list
DataFrame(d) ==
    [i \in 1..Len(d.smiles) |-> [key \in DOMAIN d |-> d[key][i]]]

\* variant: the last n rows are kept instead of the first
TailRows(df, n) ==
    SubSeq(df, (IF n < Len(df) THEN Len(df) - n ELSE 0) + 1, Len(df))

\* variant: the table is not truncated
AllRows(df, n) == df

\* df[:n]
HeadRows(df, n) == SubSeq(df, 1, IF n < Len(df) THEN n ELSE Len(df))

\* df.dropna(): rows without a missing value, in order
HasNoMissing(row) == \A key \in DOMAIN row : row[key] # None

\* variant: no row is dropped
KeepNa(df) == df

DropNa(df) == SelectSeq(df, HasNoMissing)

\* df.mean(numeric_only=True): the mean of the numeric column "score",
\* missing values skipped, as the fraction <<sum, count>>
RECURSIVE SumScores(_, _)
SumScores(df, n) ==
    IF n = 0 THEN 0
    ELSE SumScores(df, n - 1) + (IF df[n].score = None THEN 0 ELSE df[n].score[1])

RECURSIVE CountScores(_, _)
CountScores(df, n) ==
    IF n = 0 THEN 0
    ELSE CountScores(df, n - 1) + (IF df[n].score = None THEN 0 ELSE 1)

MeanNumericOnly(df) ==
    ("score" :> << SumScores(df, Len(df)), CountScores(df, Len(df)) >>)

\* df["score"].argmax(): position of the first maximum
RECURSIVE ArgMaxFrom(_, _, _)
ArgMaxFrom(df, i, best) ==
    IF i > Len(df) THEN best
    ELSE IF df[i].score[1] > df[best].score[1]
         THEN ArgMaxFrom(df, i + 1, i)
         ELSE ArgMaxFrom(df, i + 1, best)

\* variant: position of the last maximum
RECURSIVE ArgMaxLastFrom(_, _, _)
ArgMaxLastFrom(df, i, best) ==
    IF i > Len(df) THEN best
    ELSE IF df[i].score[1] >= df[best].score[1]
         THEN ArgMaxLastFrom(df, i + 1, i)
         ELSE ArgMaxLastFrom(df, i + 1, best)

ArgMaxLast(df) == ArgMaxLastFrom(df, 2, 1)

ArgMax(df) == ArgMaxFrom(df, 2, 1)

\* df.drop_duplicates("smiles"): the first row of every SMILES string
RECURSIVE DropDuplicatesFrom(_, _, _)
DropDuplicatesFrom(df, i, seen) ==
    IF i > Len(df) THEN <<>>
    ELSE IF df[i].smiles \in seen
         THEN DropDuplicatesFrom(df, i + 1, seen)
         ELSE <<df[i]>> \o DropDuplicatesFrom(df, i + 1, seen \cup {df[i].smiles})

DropDuplicates(df) == DropDuplicatesFrom(df, 1, {})

\* df.sort_values("score", ascending=False): the orders the sort can produce
\* (rows by non-increasing score; the order of equal scores is not fixed by
\* the default sort kind)
SortedByScoreDesc(df) ==
    { [k \in 1..Len(df) |-> df[perm[k]]] :
        perm \in { f \in [1..Len(df) -> 1..Len(df)] :
                     /\ \A a, b \in 1..Len(df) : a # b => f[a] # f[b]
                     /\ \A a, b \in 1..Len(df) :
                           a < b => df[f[a]].score[1] >= df[f[b]].score[1] } }

\* DataFrame.to_csv / Series.to_csv: a missing value becomes an empty field
CsvCell(v) == IF v = None THEN "" ELSE v[1]
ToCsv(df) == [i \in 1..Len(df) |-> [key \in DOMAIN df[i] |-> CsvCell(df[i][key])]]

\* MolMetric: which of calc_diversity, calc_uniqueness, calc_novelty raises
\* ValueError first ("none": all three return).  Novelty is undefined
\* without a reference set.
MolMetricOutcomes(refset) ==
    {"calc_diversity", "calc_uniqueness", "calc_novelty"}
        \cup (IF refset # None THEN {"none"} ELSE {})

\* the MolMetric calls made by the try block of lines 131-136: a call is
\* made only if the calls before it returned
MolMetricCalls(c, raised) ==
    [c EXCEPT !.calc_diversity = @ + 1,
              !.calc_uniqueness = @ + (IF raised = "calc_diversity" THEN 0 ELSE 1),
              !.calc_novelty =
                  @ + (IF raised \in {"calc_diversity", "calc_uniqueness"} THEN 0 ELSE 1)]

\* variant: the three fields are assigned only when all three calls returned
WithMolMetricsAllOrNothing(scores, raised) ==
    scores
      @@ (IF raised = "none"
          THEN ("diversity" :> "float") @@ ("uniqueness" :> "float")
                                        @@ ("novelty" :> "float")
          ELSE << >>)

\* variant: a failing calc_novelty stores a default novelty
WithMolMetricsNoveltyDefault(scores, raised) ==
    scores
      @@ (IF raised = "calc_diversity" THEN << >>
          ELSE IF raised = "calc_uniqueness" THEN ("diversity" :> "float")
          ELSE ("diversity" :> "float") @@ ("uniqueness" :> "float")
                                        @@ ("novelty" :> "float"))

\* avg_scores after the try block of lines 131-136
WithMolMetrics(scores, raised) ==
    scores
      @@ (IF raised = "calc_diversity" THEN << >>
          ELSE IF raised = "calc_uniqueness" THEN ("diversity" :> "float")
          ELSE IF raised = "calc_novelty"
               THEN ("diversity" :> "float") @@ ("uniqueness" :> "float")
          ELSE ("diversity" :> "float") @@ ("uniqueness" :> "float")
                                        @@ ("novelty" :> "float"))

\* inference() returns or raises: its locals are gone
FrameReleased ==
    /\ obs' = EnvReset
    /\ action' = None /\ step_out' = None /\ exp' = None
    /\ episodes' = [i \in Envs |-> 0]
    /\ metric_list_dict' = EmptyMetricListDict
    /\ pbar' = None /\ unique_molecule_pbar' = None
    /\ original_metric_df' = <<>> /\ metric_df' = <<>> /\ avg_scores' = None

\* variant: the empty-table test never succeeds
NoValidMoleculeNever(n_valid) == n_valid < 0

\* "if n_valid == 0"
NoValidMolecule(n_valid) == n_valid = 0

\* lines 106-121: the progress bars are closed, the metric table is built,
\* truncated and cleaned (obs and episodes are not read after the loop)
Aggregate ==
    /\ pc = "aggregate"
    /\ LET original == HeadRows(DataFrame(metric_list_dict), self_n_episodes)
           valid == DropNa(original)
           n_valid == Len(valid)
       IN  IF NoValidMolecule(n_valid)
           THEN /\ printed' = printed \cup {"No valid molecule is generated."}
                /\ result' = "returned"
                /\ pc' = "idle"
                /\ FrameReleased
           ELSE /\ original_metric_df' = original
                /\ metric_df' = valid
                /\ avg_scores' = Some(MeanNumericOnly(valid))
                /\ pc' = "mol_metric"
                /\ pbar' = None /\ unique_molecule_pbar' = None
                /\ obs' = EnvReset /\ episodes' = [i \in Envs |-> 0]
                /\ UNCHANGED << action, step_out, exp, metric_list_dict,
                                result, printed >>
    /\ UNCHANGED << component_vars, instance_vars, self_enabled, canonical_smiles_set, logger,
                    env, model_eval, calls, files >>

\* lines 123-136: molecule-set statistics from the external MolMetric
MolMetricStats ==
    /\ pc = "mol_metric"
    /\ \E raised \in MolMetricOutcomes(self_refset) :
          /\ avg_scores' = Some(WithMolMetrics(avg_scores[1], raised))
          /\ calls' = MolMetricCalls([calls EXCEPT !.preprocess = @ + 1], raised)
    /\ printed' = printed \cup {"Calculating molecular metrics"}
    /\ pc' = "write_molecules"
    /\ UNCHANGED << component_vars, instance_vars, self_enabled, canonical_smiles_set, logger,
                    env, model_eval, obs, action, step_out, exp, episodes,
                    metric_list_dict, pbar, unique_molecule_pbar,
                    original_metric_df, metric_df, files, result >>

\* variant: molecules.csv is not written before metrics.csv
WriteMoleculesOmitted ==
    /\ pc = "write_molecules"
    /\ pc' = "write_metrics"
    /\ UNCHANGED << component_vars, instance_vars, self_enabled, canonical_smiles_set, logger,
                    env, model_eval, loop_vars, calls, agg_vars, files, result, printed >>

\* lines 138-139: inference/molecules.csv
WriteMolecules ==
    /\ pc = "write_molecules"
    /\ files' = [files EXCEPT !.molecules_csv = Some(ToCsv(original_metric_df))]
    /\ pc' = "write_metrics"
    /\ UNCHANGED << component_vars, instance_vars, self_enabled, canonical_smiles_set, logger,
                    env, model_eval, loop_vars, calls, agg_vars, result, printed >>

\* lines 141-147: inference/metrics.csv
WriteMetrics ==
    /\ pc = "write_metrics"
    /\ LET summary == ("n_total" :> Len(original_metric_df))
                        @@ ("n_valid" :> Len(metric_df))
                        @@ ("time" :> "elapsed")
                        @@ avg_scores[1]
       IN  /\ avg_scores' = Some(summary)
           /\ files' = [files EXCEPT !.metrics_csv = Some(summary)]
    /\ printed' = printed \cup {"===== Inference Result ====="}
    /\ pc' = "write_best"
    /\ UNCHANGED << component_vars, instance_vars, self_enabled, canonical_smiles_set, logger,
                    env, model_eval, loop_vars, calls, original_metric_df, metric_df,
                    result >>

\* lines 149-158: inference/best_molecule.csv
WriteBestMolecule ==
    /\ pc = "write_best"
    /\ LET best_i == ArgMax(metric_df)
           best_row == metric_df[best_i]
       IN  files' = [files EXCEPT !.best_molecule_csv =
                        Some([key \in DOMAIN best_row |-> CsvCell(best_row[key])])]
    /\ printed' = printed \cup {"===== Best Molecule ====="}
    /\ pc' = "draw"
    /\ UNCHANGED << component_vars, instance_vars, self_enabled, canonical_smiles_set, logger,
                    env, model_eval, loop_vars, calls, agg_vars, result >>

\* lines 160-163 and 167: the top-50 image is rendered and saved
DrawTopMolecules ==
    /\ pc = "draw"
    /\ \E sorted \in SortedByScoreDesc(DropDuplicates(metric_df)) :
          LET top_50_df == HeadRows(sorted, TopN)
          IN  files' = [files EXCEPT !.top_50_unique_molecules_png =
                           Some([k \in 1..Len(top_50_df) |->
                                   << top_50_df[k].smiles[1], top_50_df[k].score[1] >>])]
    /\ calls' = [calls EXCEPT !.draw_molecules = @ + 1]
    /\ result' = "returned"
    /\ pc' = "idle"
    /\ FrameReleased
    /\ UNCHANGED << component_vars, instance_vars, self_enabled, canonical_smiles_set, logger,
                    env, model_eval, printed >>

\* variant: the ImportError is swallowed without being logged
DrawUnavailableSilent ==
    /\ pc = "draw"
    /\ calls' = [calls EXCEPT !.draw_molecules = @ + 1]
    /\ result' = "returned"
    /\ pc' = "idle"
    /\ FrameReleased
    /\ UNCHANGED << component_vars, instance_vars, self_enabled, canonical_smiles_set, logger,
                    env, model_eval, files, printed >>

\* lines 162-167: draw_molecules raises ImportError; it is logged
DrawUnavailable ==
    /\ pc = "draw"
    /\ calls' = [calls EXCEPT !.draw_molecules = @ + 1]
    /\ printed' = printed \cup {"You cannot draw molecules"}
    /\ result' = "returned"
    /\ pc' = "idle"
    /\ FrameReleased
    /\ UNCHANGED << component_vars, instance_vars, self_enabled, canonical_smiles_set, logger,
                    env, model_eval, files >>

\* a file write of the reporting phase raises OSError, which propagates
ReportingIOError ==
    /\ pc \in {"write_molecules", "write_metrics", "write_best", "draw"}
    /\ result' = "OSError"
    /\ pc' = "idle"
    /\ FrameReleased
    /\ UNCHANGED << component_vars, instance_vars, self_enabled, canonical_smiles_set, logger,
                    env, model_eval, calls, files, printed >>

(***************************************************************************)
(* Inference.close                                                         *)
(***************************************************************************)
\* variant: logger.disable is called without testing logger.enabled()
CloseUnconditional ==
    /\ pc = "idle"
    /\ self_enabled' = FALSE
    /\ env' = [env EXCEPT !.closed = TRUE]
    /\ IF logger.enabled
       THEN logger' = LoggerDisabled(logger) /\ result' = result
       ELSE logger' = logger /\ result' = "LoggerException"
    /\ UNCHANGED << component_vars, instance_vars, canonical_smiles_set, model_eval, pc,
                    loop_vars, calls, agg_vars, files, printed >>

\* lines 169-174: the instance is marked closed, the environment is closed,
\* the logger is disabled if it is enabled
Close ==
    /\ pc = "idle"
    /\ self_enabled' = FALSE
    /\ env' = [env EXCEPT !.closed = TRUE]
    /\ logger' = IF logger.enabled THEN LoggerDisabled(logger) ELSE logger
    /\ UNCHANGED << component_vars, instance_vars, canonical_smiles_set, model_eval, pc,
                    loop_vars, calls, agg_vars, files, result, printed >>

(***************************************************************************)
(* Specification                                                           *)
(***************************************************************************)
Next ==
    \/ InferenceClosed
    \/ InferenceLoggerAlreadyEnabled
    \/ InferenceWandbFails
    \/ InferenceBegin
    \/ LoopTest
    \/ SelectAction
    \/ EnvStep
    \/ AgentUpdate
    \/ UpdateMetrics
    \/ Aggregate
    \/ MolMetricStats
    \/ WriteMolecules
    \/ WriteMetrics
    \/ WriteBestMolecule
    \/ DrawTopMolecules
    \/ DrawUnavailable
    \/ ReportingIOError
    \/ Close

Spec == Init /\ [][Next]_vars

\* one step of the stepping loop of inference()
LoopStep ==
    \/ LoopTest
    \/ SelectAction
    \/ EnvStep
    \/ AgentUpdate
    \/ UpdateMetrics

\* a call of inference() up to the end of its stepping loop
LoopNext ==
    \/ InferenceBegin
    \/ LoopStep

\* inference() is sequential code whose calls to the agent and to the
\* environment return: a loop step that can be taken is taken
FairSpec == Init /\ [][LoopNext]_vars /\ WF_vars(LoopStep)

(***************************************************************************)
(* util.logger used on its own: any sequence of calls of its class methods *)
(***************************************************************************)
\* run identifiers given to logger.enable
RunIds == {"run", "other"}

\* messages given to logger.print
PrintMessages == {"Inference started", "Training started"}

\* everything but the logger stays as constructed
InferenceFrame ==
    UNCHANGED << instance_vars, self_enabled, canonical_smiles_set, env,
                 model_eval, pc, loop_vars, calls, agg_vars, files, result >>

LoggerFrame == InferenceFrame /\ UNCHANGED << policy_vars, writer_vars, net_vars >>

\* logger.enable(id): the logger is disabled and wandb.init succeeds
LoggerEnable ==
    /\ ~logger.enabled
    /\ \E id \in RunIds : logger' = LoggerEnabled(logger, id)
    /\ logger_result' = Returned("enable", "None")
    /\ UNCHANGED printed
    /\ LoggerFrame

\* logger.enable(id): the logger is disabled and wandb.init raises
LoggerEnableWandbFails ==
    /\ ~logger.enabled
    /\ \E id \in RunIds : logger' = LoggerEnableFailed(logger, id)
    /\ logger_result' = Raised("enable", "LoggerException", "Failed to initialize WandB")
    /\ UNCHANGED printed
    /\ LoggerFrame

\* logger.enable(id): the logger is enabled
LoggerEnableAlreadyEnabled ==
    /\ logger.enabled
    /\ logger_result' = Raised("enable", "LoggerException", "logger is already enabled")
    /\ UNCHANGED << logger, printed >>
    /\ LoggerFrame

\* logger.disable(): the logger is enabled
LoggerDisable ==
    /\ logger.enabled
    /\ logger' = LoggerDisabled(logger)
    /\ logger_result' = Returned("disable", "None")
    /\ UNCHANGED printed
    /\ LoggerFrame

\* logger.disable(): the logger is disabled
LoggerDisableAlreadyDisabled ==
    /\ ~logger.enabled
    /\ logger_result' = Raised("disable", "LoggerException", "logger is already disabled")
    /\ UNCHANGED << logger, printed >>
    /\ LoggerFrame

\* logger.print(message)
LoggerPrint ==
    /\ \E message \in PrintMessages : printed' = printed \cup {message}
    /\ logger_result' = Returned("print", "None")
    /\ UNCHANGED logger
    /\ LoggerFrame

\* logger.log_data(key, value, t): the logger is enabled
LoggerLogData ==
    /\ logger.enabled
    /\ logger' = [logger EXCEPT !.has_logged_data = TRUE]
    /\ logger_result' = Returned("log_data", "None")
    /\ UNCHANGED printed
    /\ LoggerFrame

\* logger.log_data(key, value, t): the logger is disabled
LoggerLogDataNotEnabled ==
    /\ ~logger.enabled
    /\ logger_result' = Raised("log_data", "LoggerException", "Logger is not enabled")
    /\ UNCHANGED << logger, printed >>
    /\ LoggerFrame

\* logger.log_config(config): the logger is enabled
LoggerLogConfig ==
    /\ logger.enabled
    /\ logger' = [logger EXCEPT !.has_logged_data = TRUE]
    /\ logger_result' = Returned("log_config", "None")
    /\ UNCHANGED printed
    /\ LoggerFrame

\* logger.log_config(config): the logger is disabled
LoggerLogConfigNotEnabled ==
    /\ ~logger.enabled
    /\ logger_result' = Raised("log_config", "LoggerException", "Logger is not enabled")
    /\ UNCHANGED << logger, printed >>
    /\ LoggerFrame

\* logger.dir(): the log directory, LoggerException without one
LoggerDir ==
    /\ logger_result' = IF logger.log_dir = None
                        THEN Raised("dir", "LoggerException", "logger is not enabled")
                        ELSE Returned("dir", logger.log_dir[1])
    /\ UNCHANGED << logger, printed >>
    /\ LoggerFrame

\* one Inference instance exists and is never run
ComponentInit ==
    /\ Init
    /\ self_n_episodes = 0
    /\ self_n_unique_molecules = None
    /\ self_refset = None

LoggerNext ==
    \/ LoggerEnable
    \/ LoggerEnableWandbFails
    \/ LoggerEnableAlreadyEnabled
    \/ LoggerDisable
    \/ LoggerDisableAlreadyDisabled
    \/ LoggerPrint
    \/ LoggerLogData
    \/ LoggerLogDataNotEnabled
    \/ LoggerLogConfig
    \/ LoggerLogConfigNotEnabled
    \/ LoggerDir

LoggerSpec == ComponentInit /\ [][LoggerNext]_vars

(***************************************************************************)
(* drl.policy.CategoricalPolicy used on its own                            *)
(***************************************************************************)
NumDiscreteActions == 2
MaxTemperature == 2

\* values of the temperature argument (floats, here the integers among them)
Temperatures == (0 - 1)..MaxTemperature

\* initial parameters of nn.Linear(in_features = 1, num_discrete_actions, bias)
LinearLayers ==
    { [weight |-> w, bias |-> b] :
        w \in [1..NumDiscreteActions -> {0 - 1, 1}],
        b \in {None} \cup { Some(v) : v \in [1..NumDiscreteActions -> {0, 1}] } }

\* input features x (one feature)
Features == {0 - 1, 0, 1}

\* self._layer(x): weight * x + bias
Linear(layer, x) ==
    [i \in 1..NumDiscreteActions |->
        layer.weight[i] * x + (IF layer.bias = None THEN 0 ELSE layer.bias[1][i])]

\* the float quotient a / t, kept as a fraction; a zero denominator is the
\* inf or nan of float division
Quotient(a, t) == [num |-> a, den |-> t]

\* CategoricalPolicy.forward: logits = self._layer(x) / self._temperature
Forward(p, x) ==
    [i \in 1..NumDiscreteActions |-> Quotient(Linear(p.layer, x)[i], p.temperature)]

PolicyFrame ==
    InferenceFrame /\ UNCHANGED << logger, printed, logger_result, writer_vars, net_vars >>

\* CategoricalPolicy(in_features, num_discrete_actions, bias, temperature = t)
PolicyConstruct ==
    /\ \E layer \in LinearLayers, t \in Temperatures :
          policy' = Some([layer |-> layer, temperature |-> t])
    /\ policy_result' = Returned("__init__", "None")
    /\ logits' = None
    /\ PolicyFrame

\* policy.forward(x) -> CategoricalDist(logits)
PolicyForward ==
    /\ policy # None
    /\ \E x \in Features : logits' = Some(Forward(policy[1], x))
    /\ policy_result' = Returned("forward", "CategoricalDist")
    /\ UNCHANGED policy
    /\ PolicyFrame

PolicyNext ==
    \/ PolicyConstruct
    \/ PolicyForward

PolicySpec == ComponentInit /\ [][PolicyNext]_vars

(***************************************************************************)
(* util.CSVSyncWriter used on its own                                      *)
(***************************************************************************)
MaxRows == 2

\* Python values as <<type name, text>>: an int, None, a str
PyInt(text) == << "int", text >>
PyNone == << "NoneType", "" >>
PyStr(text) == << "str", text >>
TypeOf(v) == v[1]

\* the csv module writes None as the empty field and any other value as its str()
ToCell(v) == v[2]

\* self._field_types[field](raw): the type applied to the text of a cell
Convert(type, raw) == << type, raw >>

Range(seq) == { seq[i] : i \in DOMAIN seq }
LastIndex(seq, x) ==
    CHOOSE i \in DOMAIN seq : seq[i] = x /\ \A j \in DOMAIN seq : j > i => seq[j] # x

EmptyDict == [k \in {} |-> k]

\* dict(zip(names, values)): a repeated name keeps its last value
ZipDict(names, values) == [f \in Range(names) |-> values[LastIndex(names, f)]]

\* d.update(other)
DictUpdate(d, other) == other @@ d

\* variant: every item of d is kept
DictFromKeysUnfiltered(d, keys) == d

\* util.dict_from_keys(d, keys)
DictFromKeys(d, keys) == [k \in (DOMAIN d \cap Range(keys)) |-> d[k]]

\* arguments of the calls
KeyFieldLists == { << "t" >> }
ValueFieldLists == { << "a" >>, << "b" >>, << "a", "b" >>, << "a", "a" >>, << "t" >> }
KeyArgs == { << PyInt("1") >>, << PyInt("1"), PyInt("2") >> }
ValueArgs ==
    { [f \in S |-> PyInt("1")] : S \in SUBSET {"a", "b"} } \cup { [f \in {"a"} |-> PyNone] }

\* CSVSyncWriter.fields
FieldsOf(w) == w.key_fields \o w.value_fields

\* CSVSyncWriter._check_fields_unique passes
CheckFieldsUnique(w) == Len(FieldsOf(w)) = Cardinality(Range(FieldsOf(w)))

\* CSVSyncWriter._reset_csv: the file holds the header alone
ResetCsv(w) == Some([header |-> FieldsOf(w), rows |-> << >>])

\* the attributes assigned by __init__
NewWriter(key_fields, value_fields) ==
    [key_fields |-> key_fields, value_fields |-> value_fields,
     value_buffer |-> EmptyDict, field_types |-> EmptyDict]

WriterFrame ==
    InferenceFrame /\ UNCHANGED << logger, printed, logger_result, policy_vars, net_vars >>

\* CSVSyncWriter(file_path, key_fields, value_fields)
WriterConstruct ==
    /\ \E key_fields \in KeyFieldLists, value_fields \in ValueFieldLists :
          LET w == NewWriter(key_fields, value_fields)
          IN  IF ~CheckFieldsUnique(w)
              THEN /\ writer_result' = Raised("__init__", "ValueError",
                                              "all key and value fields must be unique")
                   /\ UNCHANGED << writer, csv_file >>
              ELSE IF csv_file = None
              THEN /\ writer' = Some(w)
                   /\ csv_file' = ResetCsv(w)
                   /\ writer_result' = Returned("__init__", "None")
              ELSE IF Len(csv_file[1].header) # Len(FieldsOf(w))
              THEN /\ writer_result' = Raised("__init__", "FileExistsError",
                                              "The number of fields is different")
                   /\ UNCHANGED << writer, csv_file >>
              ELSE /\ writer' = Some(w)
                   /\ writer_result' = Returned("__init__", "None")
                   /\ UNCHANGED csv_file
    /\ WriterFrame

\* the types recorded for the value fields of a completed entry
ValueTypes(entry) ==
    [f \in { g \in DOMAIN entry : entry[g] # PyNone } |-> TypeOf(entry[f])]

\* CSVSyncWriter._write_csv: the row DictWriter appends for the fields
RowCells(fields, row) ==
    [i \in 1..Len(fields) |->
        IF fields[i] \in DOMAIN row THEN ToCell(row[fields[i]]) ELSE ""]

\* CSVSyncWriter.add(keys, values): the writer, the file and the outcome
WriterAdded(w, file, keys, values) ==
    IF Len(keys) # Len(w.key_fields)
    THEN [writer |-> w, file |-> file,
          result |-> Raised("add", "ValueError", "keys must have as many elements")]
    ELSE LET cur == IF keys \in DOMAIN w.value_buffer
                    THEN w.value_buffer[keys] ELSE EmptyDict
             entry == DictUpdate(cur, DictFromKeys(values, w.value_fields))
             buffered == [w EXCEPT !.value_buffer = (keys :> entry) @@ @]
         IN  IF Cardinality(DOMAIN entry) # Len(w.value_fields)
             THEN [writer |-> buffered, file |-> file,
                   result |-> Returned("add", "None")]
             ELSE LET typed ==
                          IF Cardinality(DOMAIN w.field_types) # Len(FieldsOf(w))
                          THEN [buffered EXCEPT !.field_types =
                                   ValueTypes(entry)
                                     @@ [f \in Range(w.key_fields) |->
                                           TypeOf(ZipDict(w.key_fields, keys)[f])]
                                     @@ @]
                          ELSE buffered
                      row == DictUpdate(ZipDict(w.key_fields, keys), entry)
                  IN  IF ~(DOMAIN row \subseteq Range(FieldsOf(w)))
                      THEN [writer |-> typed, file |-> file,
                            result |-> Raised("add", "ValueError",
                                              "dict contains fields not in fieldnames")]
                      ELSE [writer |-> [typed EXCEPT !.value_buffer =
                                          [k \in DOMAIN @ \ {keys} |-> @[k]]],
                            file |-> [file EXCEPT !.rows =
                                        Append(@, RowCells(FieldsOf(w), row))],
                            result |-> Returned("add", "None")]

\* writer.add(keys, values)
WriterAdd ==
    /\ writer # None
    /\ Len(csv_file[1].rows) < MaxRows
    /\ \E keys \in KeyArgs, values \in ValueArgs :
          LET out == WriterAdded(writer[1], csv_file[1], keys, values)
          IN  /\ writer' = Some(out.writer)
              /\ csv_file' = Some(out.file)
              /\ writer_result' = out.result
    /\ WriterFrame

\* csv.DictReader: one row as a dict over the header; a missing cell is None
RowDict(header, cells) ==
    [f \in Range(header) |->
        IF LastIndex(header, f) <= Len(cells)
        THEN PyStr(cells[LastIndex(header, f)]) ELSE PyNone]

\* the loop of the value_fields setter over the rows of the file, from row
\* i on: the writer with its buffer refilled, and the error that stopped it
RECURSIVE ReloadRows(_, _, _)
ReloadRows(w, file, i) ==
    IF i > Len(file.rows) THEN [writer |-> w, error |-> "none"]
    ELSE LET row == RowDict(file.header, file.rows[i])
             raw == DictFromKeys(row, w.value_fields)
             Kept(f) == raw[f] = PyNone \/ raw[f] = PyStr("")
         IN  IF \E f \in Range(w.key_fields) :
                    f \notin DOMAIN w.field_types \/ f \notin DOMAIN row
             THEN [writer |-> w, error |-> "KeyError"]
             ELSE IF \E f \in DOMAIN raw : ~Kept(f) /\ f \notin DOMAIN w.field_types
             THEN [writer |-> w, error |-> "KeyError"]
             ELSE LET keys == [k \in 1..Len(w.key_fields) |->
                                 Convert(w.field_types[w.key_fields[k]],
                                         ToCell(row[w.key_fields[k]]))]
                      value_dict == [f \in DOMAIN raw |->
                                       IF Kept(f) THEN raw[f]
                                       ELSE Convert(w.field_types[f], ToCell(raw[f]))]
                  IN  ReloadRows([w EXCEPT !.value_buffer = (keys :> value_dict) @@ @],
                                 file, i + 1)

\* writer.value_fields = value
WriterSetValueFields ==
    /\ writer # None
    /\ \E value \in ValueFieldLists :
          LET assigned == [writer[1] EXCEPT !.value_fields = value]
              reloaded == ReloadRows(assigned, csv_file[1], 1)
          IN  IF ~CheckFieldsUnique(assigned)
              THEN /\ writer' = Some(assigned)
                   /\ writer_result' = Raised("value_fields", "ValueError",
                                              "all key and value fields must be unique")
                   /\ UNCHANGED csv_file
              ELSE IF reloaded.error # "none"
              THEN /\ writer' = Some(reloaded.writer)
                   /\ writer_result' = Raised("value_fields", reloaded.error, "field")
                   /\ UNCHANGED csv_file
              ELSE /\ writer' = Some(reloaded.writer)
                   /\ csv_file' = ResetCsv(reloaded.writer)
                   /\ writer_result' = Returned("value_fields", "None")
    /\ WriterFrame

WriterNext ==
    \/ WriterConstruct
    \/ WriterAdd
    \/ WriterSetValueFields

WriterSpec == ComponentInit /\ [][WriterNext]_vars

(***************************************************************************)
(* util.CSVSyncWriter fed by add calls alone, for two records              *)
(***************************************************************************)
\* key arguments of two records, and one of the wrong length
TwoKeyArgs == KeyArgs \cup { << PyInt("2") >> }

\* writer.add(keys, values)
WriterAddTwoKeys ==
    /\ writer # None
    /\ Len(csv_file[1].rows) < MaxRows
    /\ \E keys \in TwoKeyArgs, values \in ValueArgs :
          LET out == WriterAdded(writer[1], csv_file[1], keys, values)
          IN  /\ writer' = Some(out.writer)
              /\ csv_file' = Some(out.file)
              /\ writer_result' = out.result
    /\ WriterFrame

AddOnlyNext ==
    \/ WriterConstruct
    \/ WriterAddTwoKeys

AddOnlySpec == ComponentInit /\ [][AddOnlyNext]_vars

(***************************************************************************)
(* drl.agent.net.RecurrentPPORNDNetwork: a network of the PPO+RND role.    *)
(* src/ declares the role; the parameter sets and the operations on them   *)
(* follow its documented contract.                                         *)
(***************************************************************************)
MaxParam == 2

\* values of one parameter set
Params == 0..MaxParam

\* observation batches and flattened hidden-state batches
RndObservations == {0, 1}
RndHiddenStates == {0, 1}

NetFrame ==
    InferenceFrame /\ UNCHANGED << logger, printed, logger_result, policy_vars, writer_vars >>

\* the output of a sub-network: determined by its parameters and its inputs
SubNetwork(parameters, o, h) ==
    [parameters |-> parameters, obs |-> o, hidden_state |-> h]

\* forward_rnd(obs, hidden_state) -> (predicted_feature, target_feature)
ForwardRnd(n, o, h) ==
    [predicted_feature |-> SubNetwork(n.predictor, o, h),
     target_feature |-> SubNetwork(n.target, o, h)]

\* the network is built: the actor-critic, predictor and target parameters
\* are drawn independently, predictor and target not equal
NetConstruct ==
    /\ net = None
    /\ \E a \in Params, p \in Params, t \in Params :
          /\ p # t
          /\ net' = Some([actor_critic |-> a, predictor |-> p, target |-> t,
                          training |-> TRUE])
    /\ net_result' = Returned("__init__", "None")
    /\ UNCHANGED rnd_outputs
    /\ NetFrame

\* net.forward_rnd(obs, hidden_state); the pair returned by the first call
\* with an input is remembered
NetForwardRnd ==
    /\ net # None
    /\ \E o \in RndObservations, h \in RndHiddenStates :
          LET out == ForwardRnd(net[1], o, h)
          IN  /\ net_result' = Returned("forward_rnd", out)
              /\ rnd_outputs' = IF << o, h >> \in DOMAIN rnd_outputs
                                THEN rnd_outputs
                                ELSE (<< o, h >> :> out) @@ rnd_outputs
    /\ UNCHANGED net
    /\ NetFrame

\* net.forward_actor_critic(obs_seq, hidden_state)
NetForwardActorCritic ==
    /\ net # None
    /\ \E o \in RndObservations, h \in RndHiddenStates :
          net_result' = Returned("forward_actor_critic",
                                 SubNetwork(net[1].actor_critic, o, h))
    /\ UNCHANGED << net, rnd_outputs >>
    /\ NetFrame

\* variant: the optimizer holds the target parameters as well
NetOptimizerStepAllParameters ==
    /\ net # None
    /\ net[1].training
    /\ \E a \in Params, p \in Params, t \in Params :
          net' = Some([net[1] EXCEPT !.actor_critic = a, !.predictor = p, !.target = t])
    /\ net_result' = Returned("step", "None")
    /\ UNCHANGED rnd_outputs
    /\ NetFrame

\* one optimizer step of training: the actor-critic and predictor parameters
\* move, the target parameters are not held by the optimizer
NetOptimizerStep ==
    /\ net # None
    /\ net[1].training
    /\ \E a \in Params, p \in Params :
          net' = Some([net[1] EXCEPT !.actor_critic = a, !.predictor = p])
    /\ net_result' = Returned("step", "None")
    /\ UNCHANGED rnd_outputs
    /\ NetFrame

\* net.train(): training mode
NetTrain ==
    /\ net # None
    /\ net' = Some([net[1] EXCEPT !.training = TRUE])
    /\ net_result' = Returned("train", "None")
    /\ UNCHANGED rnd_outputs
    /\ NetFrame

\* net.eval(): evaluation mode, as set by "self._agent.model.eval()"
NetEval ==
    /\ net # None
    /\ net' = Some([net[1] EXCEPT !.training = FALSE])
    /\ net_result' = Returned("eval", "None")
    /\ UNCHANGED rnd_outputs
    /\ NetFrame

NetNext ==
    \/ NetConstruct
    \/ NetForwardRnd
    \/ NetForwardActorCritic
    \/ NetOptimizerStep
    \/ NetTrain
    \/ NetEval

NetSpec == ComponentInit /\ [][NetNext]_vars

(***************************************************************************)
(* Properties                                                              *)
(***************************************************************************)
InLoop == pc \in {"while", "select_action", "step", "update", "metrics"}
Reporting == pc \in {"mol_metric", "write_molecules", "write_metrics",
                     "write_best", "draw"}
HasUniqueTarget == self_n_unique_molecules # None
Completed == SumUpTo(episodes, NumEnvs)
Produced == Len(metric_list_dict.smiles)

\* C1: once close() has been called, an inference() call fails with
\* RuntimeError and changes nothing: the logger is not enabled, the
\* environment is neither reset nor stepped, no artifact is written.
C1_ClosedInferenceFails ==
    [][ ~self_enabled =>
          /\ ~self_enabled'
          /\ pc' = "idle"
          /\ logger' = logger
          /\ env'.resets = env.resets
          /\ calls' = calls
          /\ files' = files
          /\ (result' # result => result' = "RuntimeError") ]_vars

\* a finished run was closed and a later inference() call failed
C1_Witness ==
    /\ ~self_enabled
    /\ result = "RuntimeError"
    /\ files.best_molecule_csv # None
    /\ ~logger.enabled

\* C2: with no unique-molecule target, a step is issued only while the
\* number of completed episodes is below n_episodes, and at loop exit that
\* number is at least n_episodes and, for n_episodes >= 1, at most
\* n_episodes + num_envs - 1.
C2_EpisodeBudget ==
    ~HasUniqueTarget =>
        /\ pc \in {"select_action", "step", "update", "metrics"} =>
              Completed < self_n_episodes
        /\ pc = "aggregate" =>
              /\ Completed >= self_n_episodes
              /\ self_n_episodes >= 1 => Completed <= self_n_episodes + NumEnvs - 1

\* the loop has ended with the largest possible overshoot
C2_Witness ==
    /\ ~HasUniqueTarget
    /\ pc = "aggregate"
    /\ self_n_episodes >= 1
    /\ calls.step >= 1
    /\ Completed = self_n_episodes + NumEnvs - 1

\* C3: with a unique-molecule target, the canonical set holds the canonical
\* identities of all molecules produced so far, and the iteration that has
\* just stepped ends the loop exactly when the number of distinct canonical
\* identities after it is >= the target, whatever the number of completed
\* episodes.
C3_UniqueBudget ==
    [][ (HasUniqueTarget /\ pc = "metrics") =>
          /\ canonical_smiles_set' =
                { CanonicalOf(metric_list_dict'.smiles[k][1]) :
                    k \in 1..Len(metric_list_dict'.smiles) }
          /\ pc' \in {"aggregate", "while"}
          /\ (pc' = "aggregate") <=>
                (Cardinality(canonical_smiles_set') >= self_n_unique_molecules[1]) ]_vars

\* the loop has ended on the unique-molecule budget before the episode budget
C3_Witness ==
    /\ HasUniqueTarget
    /\ pc = "aggregate"
    /\ Cardinality(canonical_smiles_set) >= self_n_unique_molecules[1]
    /\ self_n_unique_molecules[1] >= 1
    /\ Completed < self_n_episodes

\* C4: the table used for aggregation is the first n_episodes accumulated
\* episode records, in accumulation order: never more than n_episodes rows,
\* and on overshoot the later records are the ones left out.
C4_TruncatedTable ==
    Reporting =>
        /\ Len(original_metric_df) <= self_n_episodes
        /\ Len(original_metric_df) <= Produced
        /\ Len(original_metric_df) = self_n_episodes \/ Len(original_metric_df) = Produced
        /\ \A k \in 1..Len(original_metric_df) :
              /\ original_metric_df[k].smiles = metric_list_dict.smiles[k]
              /\ original_metric_df[k].score = metric_list_dict.score[k]

\* more records than n_episodes were accumulated and the table was cut, the
\* record left out differing from the rows kept
C4_Witness ==
    /\ pc = "mol_metric"
    /\ Produced > self_n_episodes
    /\ Len(original_metric_df) = self_n_episodes
    /\ \A k \in 1..Len(original_metric_df) :
          original_metric_df[k].smiles # metric_list_dict.smiles[Produced]

\* C5 as stated: on overshoot molecules.csv holds every produced episode row
C5_Original ==
    (files.molecules_csv # None /\ Reporting) =>
        Len(files.molecules_csv[1]) = Produced

\* C5 amended: molecules.csv holds exactly the truncated table, i.e. the
\* first n_episodes produced rows (overshoot rows are not exported), and the
\* n_total of metrics.csv is its number of rows.
C5_ExportIsTruncated ==
    (files.molecules_csv # None /\ Reporting) =>
        /\ Len(files.molecules_csv[1]) =
              (IF Produced > self_n_episodes THEN self_n_episodes ELSE Produced)
        /\ \A k \in 1..Len(files.molecules_csv[1]) :
              /\ files.molecules_csv[1][k].smiles = CsvCell(metric_list_dict.smiles[k])
              /\ files.molecules_csv[1][k].score = CsvCell(metric_list_dict.score[k])
        /\ files.metrics_csv # None =>
              files.metrics_csv[1]["n_total"] = Len(files.molecules_csv[1])

\* an overshoot run has written molecules.csv and metrics.csv
C5_Witness ==
    /\ pc = "write_best"
    /\ Produced > self_n_episodes
    /\ files.molecules_csv # None
    /\ files.metrics_csv # None
    /\ Len(files.molecules_csv[1]) = self_n_episodes

RowHasMissing(row) == row.smiles = None \/ row.score = None

NoValidRow ==
    \A k \in 1..Produced :
        k <= self_n_episodes =>
            (metric_list_dict.smiles[k] = None \/ metric_list_dict.score[k] = None)

\* C7: when no row is free of missing values after truncation, inference()
\* logs "No valid molecule is generated." and returns normally: no artifact
\* is written and neither MolMetric nor draw_molecules is called.
C7_NoValidMolecule ==
    [][ (pc = "aggregate" /\ NoValidRow) =>
          /\ pc' = "idle"
          /\ result' = "returned"
          /\ "No valid molecule is generated." \in printed'
          /\ files' = files
          /\ files' = NoFiles
          /\ calls'.preprocess = 0
          /\ calls'.draw_molecules = 0 ]_vars

\* a run whose episodes all lacked a score has returned without artifacts
C7_Witness ==
    /\ pc = "idle"
    /\ result = "returned"
    /\ "No valid molecule is generated." \in printed
    /\ calls.step >= 1
    /\ self_n_episodes >= 1
    /\ files = NoFiles
    /\ calls.preprocess = 0

TerminatedRank(terminated, i) == Cardinality({ j \in 1..i : terminated[j] })

\* C9: the next observation of the experience given to agent.update is the
\* true final observation for terminated instances and the returned next
\* observation for the others, while the observation carried to the next
\* iteration is the environment's uncorrected next observation.
C9_CorrectedNextObs ==
    [][ pc = "metrics" =>
          /\ \A i \in Envs :
                exp[1].next_obs[i] =
                   IF step_out[1].terminated[i]
                   THEN step_out[1].real_final_next_obs[
                            TerminatedRank(step_out[1].terminated, i)]
                   ELSE step_out[1].next_obs[i]
          /\ obs' = step_out[1].next_obs ]_vars

\* two instances terminated in one step with different final observations
C9_Witness ==
    /\ pc = "metrics"
    /\ \A i \in Envs : step_out[1].terminated[i]
    /\ \E i, j \in Envs : exp[1].next_obs[i] # exp[1].next_obs[j]
    /\ \A i \in Envs : exp[1].next_obs[i] # step_out[1].next_obs[i]

\* C10: the model is in evaluation mode and the environment reset before the
\* first action selection; every iteration calls select_action, env.step and
\* agent.update once each, in this order; at loop exit (early exit included)
\* update has been called as often as step.
C10_CallOrder ==
    /\ calls.select_action > 0 => (model_eval /\ env.resets >= 1)
    /\ pc = "select_action" => (model_eval /\ env.resets >= 1)
    /\ pc = "step" =>
          (calls.select_action = calls.step + 1 /\ calls.update = calls.step)
    /\ pc = "update" =>
          (calls.select_action = calls.step /\ calls.update + 1 = calls.step)
    /\ pc \notin {"step", "update"} =>
          (calls.select_action = calls.step /\ calls.update = calls.step)
    /\ pc = "metrics" =>
          /\ exp[1].obs = obs
          /\ exp[1].action = action[1]
          /\ exp[1].reward = step_out[1].reward
          /\ \A i \in Envs :
                exp[1].terminated[i] = (IF step_out[1].terminated[i] THEN 1 ELSE 0)

\* the loop was left on the unique-molecule budget, before the episode
\* budget was met, and the exiting step's transition was given to update
C10_Witness ==
    /\ pc = "aggregate"
    /\ HasUniqueTarget
    /\ Completed < self_n_episodes
    /\ calls.select_action = 1
    /\ calls.step = 1
    /\ calls.update = 1
    /\ model_eval

\* the canonical identities of the records appended by the current step
NewCanonicalIds ==
    { CanonicalOf(metric_list_dict'.smiles[k][1]) :
        k \in (Len(metric_list_dict.smiles) + 1)..Len(metric_list_dict'.smiles) }

\* C11: the canonical identity set never loses a member and its size never
\* decreases; the step that processes a batch of SMILES increases the size
\* by exactly the number of canonical identities of the batch that were not
\* yet in the set, so a batch of already-seen identities leaves it unchanged.
C11_CanonicalSetGrows ==
    [][ /\ canonical_smiles_set \subseteq canonical_smiles_set'
        /\ Cardinality(canonical_smiles_set') >= Cardinality(canonical_smiles_set)
        /\ (HasUniqueTarget /\ pc = "metrics") =>
              /\ Cardinality(canonical_smiles_set') =
                    Cardinality(canonical_smiles_set)
                      + Cardinality(NewCanonicalIds \ canonical_smiles_set)
              /\ NewCanonicalIds \subseteq canonical_smiles_set =>
                    canonical_smiles_set' = canonical_smiles_set ]_vars

\* the first step produced "CCO" in instance 1, the second step produced
\* its other spelling "OCC" in instance 2: one identity for two records
C11_Witness ==
    /\ HasUniqueTarget
    /\ pc = "while"
    /\ calls.step = 2
    /\ obs = [i \in Envs |-> IF i = 1 THEN 1 ELSE 0]
    /\ metric_list_dict.smiles = << Some("CCO"), Some("OCC") >>
    /\ canonical_smiles_set = {"CCO"}
    /\ unique_molecule_pbar[1].n = 1

MolMetricFields == {"diversity", "uniqueness", "novelty"}

\* a calc_* call of the try block raised: its last assignment was not made
CalcRaised == "novelty" \notin DOMAIN avg_scores[1]

\* C12 as stated: after a value error in any of the three calc_* calls the
\* summary holds none of diversity, uniqueness, novelty.
C12_Original ==
    (pc \in {"write_molecules", "write_metrics", "write_best"} /\ CalcRaised) =>
        DOMAIN avg_scores[1] \cap MolMetricFields = {}

\* C12: a value error in a calc_* call omits the field of that call and of
\* the calls after it, the fields assigned before it stay (diversity is
\* present exactly when calc_diversity returned, uniqueness exactly when
\* calc_uniqueness returned, novelty only with both); the mean scores are
\* untouched, no error leaves inference(), the run goes on to the file
\* writes and metrics.csv holds exactly the fields that were assigned.
C12_FieldsBeforeTheRaise ==
    [][ /\ pc = "mol_metric" =>
              LET fields == DOMAIN avg_scores'[1]
                  diversity_returned == calls'.calc_uniqueness > calls.calc_uniqueness
                  uniqueness_returned == calls'.calc_novelty > calls.calc_novelty
              IN  /\ calls'.calc_diversity = calls.calc_diversity + 1
                  /\ "diversity" \in fields <=> diversity_returned
                  /\ "uniqueness" \in fields <=> uniqueness_returned
                  /\ "novelty" \in fields => {"diversity", "uniqueness"} \subseteq fields
                  /\ avg_scores'[1].score = avg_scores[1].score
                  /\ pc' = "write_molecules"
                  /\ result' = "running"
        /\ (pc = "write_metrics" /\ pc' = "write_best") =>
              /\ files'.molecules_csv # None
              /\ DOMAIN files'.metrics_csv[1] \cap MolMetricFields =
                    DOMAIN avg_scores[1] \cap MolMetricFields
        /\ (pc = "write_best" /\ pc' = "draw") =>
              /\ files'.best_molecule_csv # None
              /\ files'.metrics_csv # None ]_vars

\* calc_uniqueness raised after calc_diversity returned: the three CSV files
\* are written and metrics.csv holds diversity alone
C12_Witness ==
    /\ pc = "draw"
    /\ calls.calc_uniqueness = 1
    /\ calls.calc_novelty = 0
    /\ files.molecules_csv # None
    /\ files.best_molecule_csv # None
    /\ files.metrics_csv # None
    /\ DOMAIN files.metrics_csv[1] \cap MolMetricFields = {"diversity"}

\* the aggregate score row exists: from the try block to the end of the
\* reporting phase
HasScoreRow == pc \in {"write_molecules", "write_metrics", "write_best", "draw"}

CountedRecords ==
    1..(IF self_n_episodes < Produced THEN self_n_episodes ELSE Produced)

\* record k has no missing value
ValidRecord(k) ==
    metric_list_dict.smiles[k] # None /\ metric_list_dict.score[k] # None

\* C14: the row written to best_molecule.csv is a valid record among the
\* first n_episodes records whose score is the maximum over all such valid
\* records, and every valid record before it has a strictly smaller score
\* (the first of several maxima).
C14_BestIsFirstMaximum ==
    [][ (pc = "write_best" /\ pc' = "draw") =>
          \E k \in CountedRecords :
              /\ ValidRecord(k)
              /\ files'.best_molecule_csv[1].smiles = metric_list_dict.smiles[k][1]
              /\ files'.best_molecule_csv[1].score = metric_list_dict.score[k][1]
              /\ \A j \in CountedRecords :
                    ValidRecord(j) =>
                        /\ metric_list_dict.score[j][1] <= metric_list_dict.score[k][1]
                        /\ j < k =>
                              metric_list_dict.score[j][1] < metric_list_dict.score[k][1] ]_vars

\* two valid rows share the maximal score 2; the first one, "CCO", was written
C14_Witness ==
    /\ pc = "draw"
    /\ metric_df = << [smiles |-> Some("CCO"), score |-> Some(2)],
                      [smiles |-> Some("OCC"), score |-> Some(2)] >>
    /\ files.best_molecule_csv = Some([smiles |-> "CCO", score |-> 2])

\* the <<smiles, score>> pairs given to draw_molecules by the current step
Shown == files'.top_50_unique_molecules_png[1]

\* the draw step that rendered the image
Rendered == pc = "draw" /\ files'.top_50_unique_molecules_png # None

\* C15: the molecules given to rendering are at most 50 valid rows with
\* pairwise distinct SMILES in non-increasing score order; no valid row
\* whose SMILES is not shown has a score above a shown one; every shown
\* SMILES carries the highest score any valid row with that SMILES has.
C15_HighestScoringDistinct ==
    [][ Rendered =>
          /\ Len(Shown) <= TopN
          /\ \A k \in 1..Len(Shown) :
                \E i \in 1..Len(metric_df) :
                    /\ metric_df[i].smiles[1] = Shown[k][1]
                    /\ metric_df[i].score[1] = Shown[k][2]
          /\ \A a, b \in 1..Len(Shown) :
                /\ a # b => Shown[a][1] # Shown[b][1]
                /\ a < b => Shown[a][2] >= Shown[b][2]
          /\ \A i \in 1..Len(metric_df) :
                (\A k \in 1..Len(Shown) : Shown[k][1] # metric_df[i].smiles[1]) =>
                    \A k \in 1..Len(Shown) : metric_df[i].score[1] <= Shown[k][2]
          /\ \A i \in 1..Len(metric_df) : \A k \in 1..Len(Shown) :
                metric_df[i].smiles[1] = Shown[k][1] =>
                    metric_df[i].score[1] <= Shown[k][2] ]_vars

\* C16: when draw_molecules raises ImportError, inference() logs the
\* message and returns normally; no image is written, and molecules.csv,
\* metrics.csv and best_molecule.csv were written before, and stay as written.
C16_RenderingUnavailable ==
    [][ (pc = "draw" /\ result' = "returned"
                    /\ files'.top_50_unique_molecules_png = None) =>
          /\ calls'.draw_molecules = calls.draw_molecules + 1
          /\ "You cannot draw molecules" \in printed'
          /\ pc' = "idle"
          /\ files' = files
          /\ files.molecules_csv # None
          /\ files.metrics_csv # None
          /\ files.best_molecule_csv # None ]_vars

\* inference() has returned after the rendering failure was logged
C16_Witness ==
    /\ result = "returned"
    /\ calls.draw_molecules = 1
    /\ "You cannot draw molecules" \in printed
    /\ files.top_50_unique_molecules_png = None
    /\ files.molecules_csv # None
    /\ files.metrics_csv # None
    /\ files.best_molecule_csv # None

\* C19: the episode bar starts at 0 of n_episodes; after every step of the
\* loop its counter is the number of completed episodes and is at most its
\* total; the total never decreases and changes only when the counter's new
\* value exceeds it, to that value.  Likewise the unique-molecule bar starts
\* at 0 of the target, its counter is the number of distinct canonical
\* identities and is at most its total, which is raised the same way.
C19_ProgressBars ==
    [][ /\ (pbar = None /\ pbar' # None) =>
              pbar'[1] = [n |-> 0, total |-> self_n_episodes]
        /\ (unique_molecule_pbar = None /\ unique_molecule_pbar' # None) =>
              unique_molecule_pbar'[1] = [n |-> 0, total |-> self_n_unique_molecules[1]]
        /\ (pbar # None /\ pbar' # None) =>
              /\ pbar'[1].n = Completed'
              /\ pbar'[1].n <= pbar'[1].total
              /\ pbar'[1].total >= pbar[1].total
              /\ pbar'[1].total = IF pbar'[1].n > pbar[1].total
                                  THEN pbar'[1].n ELSE pbar[1].total
        /\ (unique_molecule_pbar # None /\ unique_molecule_pbar' # None) =>
              /\ unique_molecule_pbar'[1].n = Cardinality(canonical_smiles_set')
              /\ unique_molecule_pbar'[1].n <= unique_molecule_pbar'[1].total
              /\ unique_molecule_pbar'[1].total >= unique_molecule_pbar[1].total
              /\ unique_molecule_pbar'[1].total =
                    IF unique_molecule_pbar'[1].n > unique_molecule_pbar[1].total
                    THEN unique_molecule_pbar'[1].n
                    ELSE unique_molecule_pbar[1].total ]_vars

\* one step pushed both counters past their totals, and both totals followed
C19_Witness ==
    /\ pc = "aggregate"
    /\ HasUniqueTarget
    /\ Completed > self_n_episodes
    /\ pbar[1] = [n |-> Completed, total |-> Completed]
    /\ Cardinality(canonical_smiles_set) > self_n_unique_molecules[1]
    /\ unique_molecule_pbar[1].total = Cardinality(canonical_smiles_set)
    /\ unique_molecule_pbar[1].n = Cardinality(canonical_smiles_set)

\* C17: in any sequence of logger calls, enable on an enabled logger and
\* disable on a disabled logger raise LoggerException and leave the enabled
\* flag, the log directory and the run id as they were; an enable that
\* returns leaves the logger enabled with a log directory and a run id, and
\* the disable that follows it returns the logger to the disabled state
\* without log directory or run id.
C17_LoggerEnableDisable ==
    [][ /\ (logger_result'.call = "enable" /\ logger.enabled) =>
              /\ logger_result'.kind = "LoggerException"
              /\ logger'.enabled = logger.enabled
              /\ logger'.log_dir = logger.log_dir
              /\ logger'.run_id = logger.run_id
        /\ (logger_result'.call = "disable" /\ ~logger.enabled) =>
              /\ logger_result'.kind = "LoggerException"
              /\ logger'.enabled = logger.enabled
              /\ logger'.log_dir = logger.log_dir
              /\ logger'.run_id = logger.run_id
        /\ (logger_result'.call = "enable" /\ logger_result'.kind = "returned") =>
              /\ ~logger.enabled
              /\ logger'.enabled
              /\ logger'.log_dir # None
              /\ logger'.run_id # None
        /\ (logger_result'.call = "disable" /\ logger.enabled) =>
              /\ logger_result'.kind = "returned"
              /\ ~logger'.enabled
              /\ logger'.log_dir = None
              /\ logger'.run_id = None ]_vars

\* enable was called on a logger that a successful enable had enabled
\* and that has logged data since
C17_Witness ==
    /\ logger.enabled
    /\ logger.run_id = Some("other")
    /\ logger.has_logged_data
    /\ logger_result = Raised("enable", "LoggerException", "logger is already enabled")

\* C18: a CategoricalPolicy is never constructed with a temperature of zero
\* or below, so the logits of a forward call are never the linear scores
\* divided by a non-positive temperature.
C18_TemperaturePositive ==
    /\ policy # None => policy[1].temperature > 0
    /\ logits # None => \A i \in 1..NumDiscreteActions : logits[1][i].den > 0

\* C20: no writer ever holds key and value fields that are not all distinct:
\* a construction with such fields raises ValueError and touches neither the
\* file nor the writer, a construction that returns has distinct fields, and
\* a reassignment of value_fields that raises ValueError leaves the value
\* fields and the file as they were.
C20_DuplicateFieldsFailFast ==
    [][ /\ (writer_result'.call = "__init__" /\ writer_result'.kind = "ValueError") =>
              (csv_file' = csv_file /\ writer' = writer)
        /\ (writer_result'.call = "__init__" /\ writer_result'.kind = "returned") =>
              CheckFieldsUnique(writer'[1])
        /\ (writer_result'.call = "value_fields" /\ writer_result'.kind = "returned") =>
              CheckFieldsUnique(writer'[1])
        /\ (writer_result'.call = "value_fields"
                /\ writer_result'.kind = "ValueError") =>
              /\ writer'[1].value_fields = writer[1].value_fields
              /\ csv_file' = csv_file ]_vars

\* C22: whenever close() has run, the environment is closed and the logger is
\* disabled without log directory, whether or not inference() was ever
\* started and however often close() is called; close() raises nothing (the
\* only error a closed instance ever reports is the RuntimeError of
\* inference()).
C22_CloseLeavesLoggerDisabled ==
    [][ ~self_enabled' =>
          /\ env'.closed
          /\ ~logger'.enabled
          /\ logger'.log_dir = None
          /\ logger'.run_id = None
          /\ (result' = result \/ result' = "RuntimeError") ]_vars

\* close() was called on an instance whose inference() was never started:
\* the logger was never enabled and is still in its initial state
C22_Witness ==
    /\ ~self_enabled
    /\ env.closed
    /\ env.resets = 0
    /\ result = "none"
    /\ logger = LoggerInit

\* C25: artifacts exist only once the stepping loop has ended (so no
\* env.step follows an artifact write), and they appear in the order
\* molecules.csv, metrics.csv, best_molecule.csv, image: in every reachable
\* state, also after a failure part-way through reporting, each artifact
\* exists only if its predecessor exists.
C25_ArtifactOrder ==
    /\ files # NoFiles => ~InLoop
    /\ files.metrics_csv # None => files.molecules_csv # None
    /\ files.best_molecule_csv # None => files.metrics_csv # None
    /\ files.top_50_unique_molecules_png # None => files.best_molecule_csv # None

\* reporting failed between metrics.csv and best_molecule.csv
C25_Witness ==
    /\ result = "OSError"
    /\ pc = "idle"
    /\ files.molecules_csv # None
    /\ files.metrics_csv # None
    /\ files.best_molecule_csv = None
    /\ files.top_50_unique_molecules_png = None

\* C26: once inference() has been called on an instance that is not closed,
\* the logger is enabled, so a further call on the still open instance ends
\* with LoggerException out of logger.enable and touches neither the
\* environment nor the agent; the environment is reset, and the loop
\* entered, at most once per instance.
C26_SecondCallFailsAtEnable ==
    [][ /\ env'.resets <= 1
        /\ (pc = "idle" /\ self_enabled /\ self_enabled' /\ result # "none") =>
              /\ logger.enabled
              /\ result' = "LoggerException"
              /\ pc' = "idle"
              /\ env' = env
              /\ calls' = calls
              /\ logger' = logger ]_vars

\* a second call on an open instance whose first call completed reporting
C26_Witness ==
    /\ self_enabled
    /\ pc = "idle"
    /\ result = "LoggerException"
    /\ env.resets = 1
    /\ files.best_molecule_csv # None
    /\ logger.enabled

\* C27: without a unique-molecule target the canonical identity set stays
\* empty through the whole run, whatever molecules are produced, and the
\* stepping loop is left only with the episode budget used up.
C27_NoTargetNoCanonicalSet ==
    ~HasUniqueTarget =>
        /\ canonical_smiles_set = {}
        /\ unique_molecule_pbar = None
        /\ pc = "aggregate" => ~LoopCondition

\* the loop has ended without a target although valid molecules were produced
C27_Witness ==
    /\ ~HasUniqueTarget
    /\ pc = "aggregate"
    /\ \E i \in 1..Len(metric_list_dict.smiles) : metric_list_dict.smiles[i] # None
    /\ canonical_smiles_set = {}

\* C28: when logger.enable has failed with LoggerException because wandb
\* could not be initialised, the logger is disabled and has no log directory
\* (so that enable may be tried again and disable reports already-disabled).
C28_FailedEnableLeavesDisabled ==
    (/\ logger_result.call = "enable"
     /\ logger_result.kind = "LoggerException"
     /\ logger_result.value = "Failed to initialize WandB") =>
        /\ ~logger.enabled
        /\ logger.log_dir = None

\* C24: every add call is explained by some arguments as follows.  With a
\* number of keys other than the number of key fields it raises ValueError
\* and changes neither the buffer nor the file.  Otherwise the values whose
\* names are value fields are merged into what is buffered for the key; if
\* the merged names are all the value fields, one row of the key and the
\* merged values is appended and the key leaves the buffer, and if not, the
\* file is unchanged and the key is buffered with the merged values.  The
\* entries of the other keys are untouched, and no buffered entry is ever
\* complete.
C24_RowExactlyWhenComplete ==
    [][ (writer # None /\ writer_result'.call = "add") =>
          \E keys \in TwoKeyArgs, values \in ValueArgs :
             LET w == writer[1]
                 after == writer'[1]
                 held == IF keys \in DOMAIN w.value_buffer
                         THEN w.value_buffer[keys] ELSE EmptyDict
                 names == (DOMAIN held \cup DOMAIN values) \cap Range(w.value_fields)
                 merged == [f \in names |->
                              IF f \in DOMAIN values THEN values[f] ELSE held[f]]
                 others == DOMAIN w.value_buffer \ {keys}
             IN  IF Len(keys) # Len(w.key_fields)
                 THEN /\ writer_result'.kind = "ValueError"
                      /\ writer' = writer
                      /\ csv_file' = csv_file
                 ELSE /\ writer_result'.kind = "returned"
                      /\ after.key_fields = w.key_fields
                      /\ after.value_fields = w.value_fields
                      /\ csv_file'[1].header = csv_file[1].header
                      /\ \A k \in others :
                            /\ k \in DOMAIN after.value_buffer
                            /\ after.value_buffer[k] = w.value_buffer[k]
                      /\ \A k \in DOMAIN after.value_buffer :
                            DOMAIN after.value_buffer[k] # Range(w.value_fields)
                      /\ IF names = Range(w.value_fields)
                         THEN /\ csv_file'[1].rows =
                                    Append(csv_file[1].rows,
                                           RowCells(FieldsOf(w),
                                                    ZipDict(w.key_fields, keys) @@ merged))
                              /\ DOMAIN after.value_buffer = others
                         ELSE /\ csv_file' = csv_file
                              /\ DOMAIN after.value_buffer = others \cup {keys}
                              /\ after.value_buffer[keys] = merged ]_vars

\* the record of key 1 was written from two add calls while the record of
\* key 2 is still incomplete in the buffer
C24_Witness ==
    /\ writer # None
    /\ writer[1].value_fields = << "a", "b" >>
    /\ csv_file[1].rows = << << "1", "", "1" >> >>
    /\ DOMAIN writer[1].value_buffer = { << PyInt("2") >> }
    /\ DOMAIN writer[1].value_buffer[<< PyInt("2") >>] = {"b"}
    /\ writer_result = Returned("add", "None")

\* C21: the target feature forward_rnd returns for an input is the one its
\* first call with that input returned, whatever optimizer steps, mode
\* changes and other forward calls happened in between; the target
\* parameters are those the network was built with.
C21_TargetNeverUpdated ==
    /\ net_result.call = "forward_rnd" =>
          LET out == net_result.value
              input == << out.target_feature.obs, out.target_feature.hidden_state >>
          IN  /\ input \in DOMAIN rnd_outputs
              /\ rnd_outputs[input].target_feature = out.target_feature
    /\ \A input \in DOMAIN rnd_outputs :
          rnd_outputs[input].target_feature.parameters = net[1].target

\* forward_rnd was repeated on an input after the predictor had been updated
C21_Witness ==
    /\ net_result.call = "forward_rnd"
    /\ LET out == net_result.value
           input == << out.target_feature.obs, out.target_feature.hidden_state >>
       IN  /\ rnd_outputs[input].predicted_feature # out.predicted_feature
           /\ rnd_outputs[input].target_feature = out.target_feature
    /\ ~net[1].training

\* C23: with every environment instance completing an episode within
\* MaxEpisodeLen steps and a finite episode budget, a call of inference()
\* that is in its stepping loop eventually leaves it and reaches
\* aggregation.
C23_LoopExits == InLoop ~> (pc = "aggregate")

\* the loop ended through the episode budget after the most steps a run
\* takes, below the cap of the step counter
C23_Witness ==
    /\ pc = "aggregate"
    /\ ~LoopCondition
    /\ self_n_episodes = MaxEpisodes
    /\ calls.step = StepCap - 1

====
